---- MODULE Spec2Model ----
(***************************************************************************)
(* The PIO IDE driver of src/drivers/ide.c as a state machine.             *)
(*                                                                         *)
(* State: the driver's statics (idelock, idequeue, havedisk1, havedisk2),  *)
(* the buffer requests handed to it (struct buf: dev, blockno, flags,      *)
(* data, qnext), the position of every thread inside iderw, the position   *)
(* of the interrupt handler inside ideintr, the position of ideinit, and   *)
(* the primary channel's controller (task-file registers, status byte,     *)
(* drive buffer, interrupt line) with the two drives' contents behind it.  *)
(***************************************************************************)
EXTENDS Integers, Sequences, FiniteSets

\* ------------------------------------------------------------------ bounds
NTHREADS == 2
NBUF == 2
FSSIZE == 1
MaxData == 1
NDEEP == 3

\* --------------------------------------------------------- program constants
ATA_SR_BSY == 128
ATA_SR_DRDY == 64
ATA_SR_DF == 32
ATA_SR_DSC == 16
ATA_SR_ERR == 1
ATA_CMD_READ == 32
ATA_CMD_WRITE == 48
FS_DEVNO == 1
SWAP_DEVNO == 2
SECTSIZE == 512
BSIZE == 512
NPOLL == 1000
NSECS == 8
MaxSectorsPerCmd == 7

\* The threads and buffers that exist; NTHREADS threads and NBUF buffers are in
\* use unless a scenario says otherwise.
Threads == 1..NDEEP
Bufs == 1..NDEEP
Data == 0..MaxData
\* The device ids a request may carry: the boot disk and the two the source names.
Devs == {0, FS_DEVNO, SWAP_DEVNO}
\* The drives of the primary channel, told apart by bit 4 of the drive/head register.
Drives == {0, 1}
\* Block numbers a caller may pass: in range, the first out of range, one above.
Blocks == 0..(FSSIZE + 1)
Flags == {"B_BUSY", "B_VALID", "B_DIRTY"}
\* The interrupt context as a holder of idelock (threads hold it under their id).
INTR == NDEEP + 1

VARIABLES
  idelock,    \* 0 when free, else the holder: a thread id or INTR
  idequeue,   \* the head request (a buffer id) or 0
  havedisk1,  \* 0 or 1
  havedisk2,  \* 0 or 1
  buf,        \* buf[b]: the request's dev, blockno, flags, data, qnext
  pc,         \* pc[t]: where thread t is inside iderw
  tb,         \* tb[t]: the request thread t passed to iderw (0: none)
  wasdirty,   \* wasdirty[t]: B_DIRTY was set in the request at submission
  ipc,        \* where the interrupt handler is inside ideintr
  initpc,     \* where ideinit is
  hw,         \* the primary channel: registers, status, drive buffer
  irq,        \* the channel's interrupt line is raised and not yet taken
  disk,       \* disk[drive][lba]: the data of the block starting at lba
  panicked,   \* "" while running, else the message of the panic that halted
  hist,       \* hist[b]: the lifecycle events logged for b on this trip
  lastw,      \* the last write ideintr completed (dev, blockno, data), if recorded
  cache,      \* the buffers the buffer cache hands out
  polls,      \* polls[i]: the poll at which probe i first saw a status, if recorded
  order,      \* the requests appended by iderw and not yet popped, oldest first
  sw,         \* sw[t]: the swap call thread t is in (operation, sector, memory)
  hw2,        \* the secondary channel: registers, status, drive buffer
  swapdisk    \* swapdisk[lba]: the swap drive's sectors

swapvars == <<sw, hw2, swapdisk>>

vars == <<idelock, idequeue, havedisk1, havedisk2, buf, pc, tb, wasdirty, ipc,
          initpc, hw, irq, disk, panicked, hist, lastw, cache, polls, order, swapvars>>

\* ---------------------------------------------------------------- helpers
BitSet(r, bit) == (r \div bit) % 2 = 1

SectorPerBlock == BSIZE \div SECTSIZE

\* The controller with no command: ready, no fault, empty drive buffer.
HwIdle ==
  [status |-> ATA_SR_DRDY + ATA_SR_DSC, cmd |-> 0, seccnt |-> 0, sector |-> 0,
   cyl_lo |-> 0, cyl_hi |-> 0, sdh |-> 224, data |-> 0]

\* The drive and the 28-bit address the task-file registers select.
HwDrive(h) == (h.sdh \div 16) % 2
HwLba(h) == h.sector + 256 * h.cyl_lo + 65536 * h.cyl_hi + 16777216 * (h.sdh % 16)

Lbas == 0..(FSSIZE * SectorPerBlock - 1)

\* The sectors of the swap drive: one span of a swap call.
SwapLbas == 0..(NSECS - 1)
\* The secondary channel with no command; pos is the sector of the span the
\* drive is at, full says its buffer holds a sector still to be written.
Hw2Idle ==
  [status |-> ATA_SR_DRDY + ATA_SR_DSC, cmd |-> 0, seccnt |-> 0, sector |-> 0,
   cyl_lo |-> 0, cyl_hi |-> 0, sdh |-> 224, data |-> 0, pos |-> 0, full |-> FALSE]
\* A thread outside read_swap and write_swap.
NoSwap == [op |-> "none", secno |-> 0, k |-> 0, mem |-> <<>>, ret |-> 0, moved |-> <<>>]

\* idewait: spins while BSY is set (callers guard on it), then reports a fault.
idewait(r, check_error) ==
  IF check_error /\ (BitSet(r, ATA_SR_DF) \/ BitSet(r, ATA_SR_ERR)) THEN -1 ELSE 0

Settled(b) == "B_VALID" \in buf[b].flags /\ "B_DIRTY" \notin buf[b].flags

\* The chain from idequeue through qnext, as a sequence (cut at NDEEP + 1 links).
RECURSIVE Chain(_, _)
Chain(b, n) == IF b = 0 \/ n = 0 THEN <<>> ELSE <<b>> \o Chain(buf[b].qnext, n - 1)
Queue == Chain(idequeue, NDEEP + 1)

Running == panicked = ""

\* No probe recorded.
NoPolls == <<-1, -1>>

\* No write recorded; on says whether the ghost records are kept at all.
NoWrite(on) == [on |-> on, dev |-> 0, blockno |-> 0, data |-> -1]

\* -------------------------------------------------------------------- Init
\* The state after the kernel image is loaded (the statics at their
\* initializers), the threads of `started` ready to use the driver; `record`
\* says whether the ghost records (lastw, polls) are kept.
Boot(started, record) ==
  /\ idelock = 0
  /\ idequeue = 0
  /\ havedisk1 = 0
  /\ havedisk2 = 0
  /\ buf = [b \in Bufs |-> [dev |-> 0, blockno |-> 0, flags |-> {}, data |-> 0, qnext |-> 0]]
  /\ pc = [t \in Threads |-> IF t \in started THEN "idle" ELSE "off"]
  /\ tb = [t \in Threads |-> 0]
  /\ wasdirty = [t \in Threads |-> FALSE]
  /\ ipc = "idle"
  /\ initpc = "none"
  /\ hw = HwIdle
  /\ irq = FALSE
  /\ disk \in [Drives -> [Lbas -> Data]]
  /\ panicked = ""
  /\ hist = [b \in Bufs |-> <<>>]
  /\ lastw = NoWrite(record)
  /\ cache = 1..NBUF
  /\ polls = NoPolls
  /\ order = <<>>
  /\ sw = [t \in Threads |-> NoSwap]
  /\ hw2 = Hw2Idle
  /\ swapdisk = [l \in SwapLbas |-> 0]

Init == Boot(1..NTHREADS, FALSE)

\* ------------------------------------------------------------ idestart
\* Mutant: the bound tested one too high.
BlockOutOfRangeOffByOne(blockno) == blockno > FSSIZE

\* The out-of-range test of idestart.
BlockOutOfRange(blockno) == blockno >= FSSIZE

\* The task file and command idestart writes for a request r.
StartRegs(r) ==
  LET sector == r.blockno * SectorPerBlock
      dirty == "B_DIRTY" \in r.flags
  IN [status |-> ATA_SR_BSY,
      cmd |-> IF dirty THEN ATA_CMD_WRITE ELSE ATA_CMD_READ,
      seccnt |-> SectorPerBlock,
      sector |-> sector % 256,
      cyl_lo |-> (sector \div 256) % 256,
      cyl_hi |-> (sector \div 65536) % 256,
      sdh |-> 224 + 16 * (r.dev % 2) + ((sector \div 16777216) % 16),
      data |-> IF dirty THEN r.data ELSE 0]

\* idestart(b), called with idelock held, the requests being bf, the log h and
\* the controller h0: sets hw, hist and panicked.
\* idewait(IO_BASE0, 0) spins while the channel is busy: the step waits for it.
idestart(b, bf, h, h0) ==
  IF b = 0 THEN
    /\ panicked' = "idestart"
    /\ hw' = h0
    /\ hist' = h
  ELSE IF BlockOutOfRange(bf[b].blockno) THEN
    /\ panicked' = "incorrect blockno"
    /\ hw' = h0
    /\ hist' = h
  ELSE IF SectorPerBlock > MaxSectorsPerCmd THEN
    /\ panicked' = "idestart"
    /\ hw' = h0
    /\ hist' = h
  ELSE
    /\ ~BitSet(h0.status, ATA_SR_BSY)
    /\ idewait(h0.status, FALSE) = 0
    /\ hw' = StartRegs(bf[b])
    /\ hist' = [h EXCEPT ![b] = Append(@, "ACTIVE")]
    /\ UNCHANGED panicked

\* ------------------------------------------------------------- hardware
\* The status bytes a drive shows when a command ends: fine, error, drive fault.
EndStatus == {ATA_SR_DRDY + ATA_SR_DSC,
              ATA_SR_DRDY + ATA_SR_DSC + ATA_SR_ERR,
              ATA_SR_DRDY + ATA_SR_DSC + ATA_SR_DF}

Faulty(st) == BitSet(st, ATA_SR_DF) \/ BitSet(st, ATA_SR_ERR)

\* The drive ends the command in flight: it moves the block between its buffer
\* and the medium unless it faults (an address off the medium always faults),
\* clears BSY and raises the interrupt line. After a faulted read its buffer
\* holds anything.
HwComplete(st) ==
  /\ Running
  /\ BitSet(hw.status, ATA_SR_BSY)
  /\ HwLba(hw) \notin Lbas => Faulty(st)
  /\ \E junk \in Data :
       hw' = [hw EXCEPT !.status = st,
                        !.data = IF hw.cmd # ATA_CMD_READ THEN @
                                 ELSE IF Faulty(st) THEN junk
                                 ELSE disk[HwDrive(hw)][HwLba(hw)]]
  /\ disk' = IF hw.cmd = ATA_CMD_WRITE /\ ~Faulty(st)
             THEN [disk EXCEPT ![HwDrive(hw)][HwLba(hw)] = hw.data]
             ELSE disk
  /\ irq' = TRUE
  /\ UNCHANGED <<idelock, idequeue, havedisk1, havedisk2, buf, pc, tb, wasdirty,
                 ipc, initpc, panicked, hist, lastw>>
  /\ UNCHANGED <<cache, polls, order, swapvars>>

\* --------------------------------------------------------------- iderw
\* The requests a caller may pass. A request that keeps the caller's contract
\* takes every block in range and data on the devices 0 and FS_DEVNO; what a
\* buffer holds before a read is stale and taken as 0. A request with a block
\* out of range, or with flags iderw refuses, is drawn with the other fields at
\* 0, and a request for SWAP_DEVNO as a read of block 0.
GoodFlags == {{"B_BUSY"}, {"B_BUSY", "B_DIRTY"}, {"B_BUSY", "B_VALID", "B_DIRTY"}}
Requests ==
  {r \in [dev : Devs, blockno : Blocks, flags : SUBSET Flags, data : Data] :
     /\ "B_DIRTY" \notin r.flags => r.data = 0
     /\ r.flags \notin GoodFlags => r.dev = 0 /\ r.blockno = 0 /\ r.data = 0
     /\ r.blockno >= FSSIZE => r.data = 0
     /\ r.dev = SWAP_DEVNO => r.blockno = 0 /\ r.flags = {"B_BUSY"}}

\* The buffer cache hands a thread a buffer nobody else holds, and keeps one
\* buffer per (dev, blockno); the thread fills in the request and calls iderw.
Call(t, b, r) ==
  /\ Running
  /\ pc[t] = "idle"
  /\ initpc \in {"none", "done"}
  /\ b \in cache
  /\ \A u \in Threads : tb[u] # b
  /\ \A u \in Threads : tb[u] # 0 =>
        ~(buf[tb[u]].dev = r.dev /\ buf[tb[u]].blockno = r.blockno)
  /\ buf' = [buf EXCEPT ![b] = [dev |-> r.dev, blockno |-> r.blockno,
                                flags |-> r.flags, data |-> r.data,
                                qnext |-> @.qnext]]
  /\ tb' = [tb EXCEPT ![t] = b]
  /\ wasdirty' = [wasdirty EXCEPT ![t] = "B_DIRTY" \in r.flags]
  /\ pc' = [pc EXCEPT ![t] = "check"]
  /\ hist' = [hist EXCEPT ![b] = <<"SUBMITTED">>]
  /\ UNCHANGED <<idelock, idequeue, havedisk1, havedisk2, ipc, initpc, hw, irq,
                 disk, panicked, lastw>>
  /\ UNCHANGED <<cache, polls, order, swapvars>>

\* Mutant: the masked flags compared with VALID|DIRTY instead of VALID.
NothingToDoWrongMask(fl) == fl \cap {"B_VALID", "B_DIRTY"} = {"B_VALID", "B_DIRTY"}

\* The three caller-contract tests, in the order of the code.
NotBusy(fl) == "B_BUSY" \notin fl
NothingToDo(fl) == fl \cap {"B_VALID", "B_DIRTY"} = {"B_VALID"}
DiskAbsent(dev, have1) == dev # 0 /\ have1 = 0

IderwCheck(t) ==
  /\ Running
  /\ pc[t] = "check"
  /\ LET b == tb[t] IN
       IF NotBusy(buf[b].flags) THEN
         /\ panicked' = "iderw: buf not busy"
         /\ UNCHANGED pc
       ELSE IF NothingToDo(buf[b].flags) THEN
         /\ panicked' = "iderw: nothing to do"
         /\ UNCHANGED pc
       ELSE IF DiskAbsent(buf[b].dev, havedisk1) THEN
         /\ panicked' = "iderw: ide disk 1 not present"
         /\ UNCHANGED pc
       ELSE
         /\ pc' = [pc EXCEPT ![t] = "acquire"]
         /\ UNCHANGED panicked
  /\ UNCHANGED <<idelock, idequeue, havedisk1, havedisk2, buf, tb, wasdirty, ipc,
                 initpc, hw, irq, disk, hist, lastw>>
  /\ UNCHANGED <<cache, polls, order, swapvars>>

IderwAcquire(t) ==
  /\ Running
  /\ pc[t] = "acquire"
  /\ idelock = 0
  /\ idelock' = t
  /\ pc' = [pc EXCEPT ![t] = "enqueue"]
  /\ UNCHANGED <<idequeue, havedisk1, havedisk2, buf, tb, wasdirty, ipc, initpc,
                 hw, irq, disk, panicked, hist, lastw>>
  /\ UNCHANGED <<cache, polls, order, swapvars>>

\* Mutant: the disk started on every append.
NeedStartAlways(head, b) == TRUE

\* "Start disk if necessary": the request just appended is the head.
NeedStart(head, b) == head = b

\* Mutant: the link of the request is not cleared.
KeepLink(bf, b) == bf

\* "b->qnext = 0".
ClearLink(bf, b) == [bf EXCEPT ![b].qnext = 0]

\* Mutant: the walk stops at the head's link.
WalkStopsAtHead(q) == q[1]

\* The request whose link the walk over a non-empty chain ends at.
WalkEnd(q) == q[Len(q)]

\* Clear the link, walk to the end of the chain, hang b there; start b if it is
\* now the head.
IderwEnqueue(t) ==
  /\ Running
  /\ pc[t] = "enqueue"
  /\ LET b == tb[t]
         cleared == ClearLink(buf, b)
         q == Queue
         h == [hist EXCEPT ![b] = Append(@, "QUEUED")]
     IN /\ IF idequeue = 0
           THEN /\ idequeue' = b
                /\ buf' = cleared
           ELSE /\ idequeue' = idequeue
                /\ buf' = [cleared EXCEPT ![WalkEnd(q)].qnext = b]
        /\ IF NeedStart(idequeue', b)
           THEN idestart(b, buf', h, hw)
           ELSE /\ hist' = h
                /\ UNCHANGED <<hw, panicked>>
  /\ pc' = [pc EXCEPT ![t] = IF panicked' = "" THEN "loop" ELSE @]
  /\ UNCHANGED <<idelock, havedisk1, havedisk2, tb, wasdirty, ipc, initpc, irq,
                 disk, lastw>>
  /\ order' = Append(order, tb[t])
  /\ UNCHANGED <<cache, polls, swapvars>>

\* Mutant: the loop waits for VALID only.
NotDoneValidOnly(fl) == "B_VALID" \notin fl

\* The condition of iderw's wait loop.
NotDone(fl) == fl \cap {"B_VALID", "B_DIRTY"} # {"B_VALID"}

\* One evaluation of the loop: sleep(b, &idelock), which parks the thread on b
\* and releases idelock in one step, or leave the loop, release and return.
IderwLoop(t) ==
  /\ Running
  /\ pc[t] = "loop"
  /\ pc' = [pc EXCEPT ![t] = IF NotDone(buf[tb[t]].flags) THEN "sleeping" ELSE "done"]
  /\ idelock' = 0
  /\ UNCHANGED <<idequeue, havedisk1, havedisk2, buf, tb, wasdirty, ipc, initpc,
                 hw, irq, disk, panicked, hist, lastw>>
  /\ UNCHANGED <<cache, polls, order, swapvars>>

\* A woken thread takes idelock again inside sleep before it returns to the loop.
IderwWake(t) ==
  /\ Running
  /\ pc[t] = "runnable"
  /\ idelock = 0
  /\ idelock' = t
  /\ pc' = [pc EXCEPT ![t] = "loop"]
  /\ UNCHANGED <<idequeue, havedisk1, havedisk2, buf, tb, wasdirty, ipc, initpc,
                 hw, irq, disk, panicked, hist, lastw>>
  /\ UNCHANGED <<cache, polls, order, swapvars>>

\* The caller is done with the buffer and gives it back to the buffer cache.
Return(t) ==
  /\ Running
  /\ pc[t] = "done"
  /\ pc' = [pc EXCEPT ![t] = "idle"]
  /\ buf' = [buf EXCEPT ![tb[t]] = [dev |-> 0, blockno |-> 0, flags |-> {},
                                    data |-> 0, qnext |-> @.qnext]]
  /\ hist' = [hist EXCEPT ![tb[t]] = <<>>]
  /\ tb' = [tb EXCEPT ![t] = 0]
  /\ wasdirty' = [wasdirty EXCEPT ![t] = FALSE]
  /\ UNCHANGED <<idelock, idequeue, havedisk1, havedisk2, ipc, initpc, hw, irq,
                 disk, panicked, lastw>>
  /\ UNCHANGED <<cache, polls, order, swapvars>>

\* sleep may return without wakeup(b): the scheduler makes a sleeper runnable
\* for other reasons (a kill), which is why iderw tests the flags in a loop.
SpuriousWakeup(t) ==
  /\ Running
  /\ pc[t] = "sleeping"
  /\ pc' = [pc EXCEPT ![t] = "runnable"]
  /\ UNCHANGED <<idelock, idequeue, havedisk1, havedisk2, buf, tb, wasdirty, ipc,
                 initpc, hw, irq, disk, panicked, hist, lastw>>
  /\ UNCHANGED <<cache, polls, order, swapvars>>

\* Mutant: wakeup wakes the sleepers on every channel but chan.
wakeupOthers(chan) ==
  [t \in Threads |-> IF pc[t] = "sleeping" /\ tb[t] # chan THEN "runnable" ELSE pc[t]]

\* Mutant: the read's data is pulled without the error check.
PullDataUnchecked(fl, st) == "B_DIRTY" \notin fl

\* Mutant: wakeup makes nobody runnable.
wakeupNobody(chan) == pc

\* wakeup(chan): every thread parked on chan becomes runnable.
wakeup(chan) ==
  [t \in Threads |-> IF pc[t] = "sleeping" /\ tb[t] = chan THEN "runnable" ELSE pc[t]]

\* -------------------------------------------------------------- ideintr
\* The handler is entered for a raised interrupt line, or spuriously while the
\* controller has no command; it runs once it has idelock.
IntrEnter ==
  /\ Running
  /\ ipc = "idle"
  /\ irq \/ hw.cmd = 0
  /\ idelock = 0
  /\ idelock' = INTR
  /\ irq' = FALSE
  /\ ipc' = "check"
  /\ UNCHANGED <<idequeue, havedisk1, havedisk2, buf, pc, tb, wasdirty, initpc,
                 hw, disk, panicked, hist, lastw>>
  /\ UNCHANGED <<cache, polls, order, swapvars>>

\* Mutant: the early return without the release.
IntrSpuriousKeepsLock ==
  /\ Running
  /\ ipc = "check"
  /\ idequeue = 0
  /\ ipc' = "idle"
  /\ UNCHANGED <<idelock, idequeue, havedisk1, havedisk2, buf, pc, tb, wasdirty,
                 initpc, hw, irq, disk, panicked, hist, lastw>>
  /\ UNCHANGED <<cache, polls, order, swapvars>>

\* The queue is empty: release and return.
IntrSpurious ==
  /\ Running
  /\ ipc = "check"
  /\ idequeue = 0
  /\ idelock' = 0
  /\ ipc' = "idle"
  /\ UNCHANGED <<idequeue, havedisk1, havedisk2, buf, pc, tb, wasdirty, initpc,
                 hw, irq, disk, panicked, hist, lastw>>
  /\ UNCHANGED <<cache, polls, order, swapvars>>

\* "Read data if needed": a read whose error-checked wait reports no fault.
PullData(fl, st) == "B_DIRTY" \notin fl /\ idewait(st, TRUE) >= 0

\* Mutant: DIRTY left set on completion.
DoneFlagsKeepDirty(fl) == fl \cup {"B_VALID"}

\* The flags of a completed request.
DoneFlags(fl) == (fl \cup {"B_VALID"}) \ {"B_DIRTY"}

\* Mutant: the next request is never started.
MoreWorkNever(head) == FALSE

\* "Start disk on next buf in queue": there is one.
MoreWork(head) == head # 0

\* Pop the head, pull a read's data, set the flags, wake the sleepers on b,
\* start the new head if there is one, release.
\* idewait is evaluated for a read only; it spins while the channel is busy.
IntrService ==
  /\ Running
  /\ ipc = "check"
  /\ idequeue # 0
  /\ LET b == idequeue
         pull == PullData(buf[b].flags, hw.status)
         h == [hist EXCEPT ![b] = Append(@, "COMPLETED")]
         h0 == IF BitSet(hw.status, ATA_SR_BSY) THEN hw ELSE HwIdle
     IN /\ "B_DIRTY" \notin buf[b].flags => ~BitSet(hw.status, ATA_SR_BSY)
        /\ idequeue' = buf[b].qnext
        /\ buf' = [buf EXCEPT ![b].data = IF pull THEN hw.data ELSE @,
                              ![b].flags = DoneFlags(@)]
        /\ pc' = wakeup(b)
        /\ IF MoreWork(idequeue')
           THEN idestart(idequeue', buf', h, h0)
           ELSE /\ hw' = h0
                /\ hist' = h
                /\ UNCHANGED panicked
        /\ lastw' = IF lastw.on /\ "B_DIRTY" \in buf[b].flags
                    THEN [on |-> TRUE, dev |-> buf[b].dev,
                          blockno |-> buf[b].blockno, data |-> buf[b].data]
                    ELSE lastw
  /\ idelock' = IF panicked' = "" THEN 0 ELSE idelock
  /\ ipc' = IF panicked' = "" THEN "idle" ELSE ipc
  /\ UNCHANGED <<havedisk1, havedisk2, tb, wasdirty, initpc, irq, disk>>
  /\ order' = SelectSeq(order, LAMBDA x : x # idequeue)
  /\ UNCHANGED <<cache, polls, swapvars>>

\* -------------------------------------------------------------- ideinit
\* The poll at which a drive first shows a nonzero status: at once, at the last
\* poll of the probe, or not within it.
PollInputs == {0, NPOLL - 1, NPOLL}

\* Mutant: the loop polls once more.
ProbeOneMore(first) == IF first <= NPOLL THEN 1 ELSE 0

\* The probe loop: the drive is seen iff it shows up at a poll below NPOLL.
Probe(first) == IF first < NPOLL THEN 1 ELSE 0

\* ideinit runs at boot, before any thread is inside the driver. Each probe
\* takes as input the poll at which the drive first shows a nonzero status.
IdeinitStart ==
  /\ Running
  /\ initpc = "none"
  /\ \A t \in Threads : pc[t] \in {"idle", "off"}
  /\ ipc = "idle"
  /\ idelock' = 0
  /\ initpc' = "probe1"
  /\ UNCHANGED <<idequeue, havedisk1, havedisk2, buf, pc, tb, wasdirty, ipc, hw,
                 irq, disk, panicked, hist, lastw>>
  /\ UNCHANGED <<cache, polls, order, swapvars>>

IdeinitProbe1(first) ==
  /\ Running
  /\ initpc = "probe1"
  /\ ~BitSet(hw.status, ATA_SR_BSY)
  /\ hw' = [hw EXCEPT !.sdh = 224 + 16 * (FS_DEVNO % 2)]
  /\ havedisk1' = Probe(first)
  /\ IF havedisk1' = 0
     THEN /\ panicked' = "ide disk 1 not present"
          /\ UNCHANGED initpc
     ELSE /\ initpc' = "probe2"
          /\ UNCHANGED panicked
  /\ UNCHANGED <<idelock, idequeue, havedisk2, buf, pc, tb, wasdirty, ipc, irq,
                 disk, hist, lastw>>
  /\ polls' = IF lastw.on THEN [polls EXCEPT ![1] = first] ELSE polls
  /\ UNCHANGED <<cache, order, swapvars>>

IdeinitProbe2(first) ==
  /\ Running
  /\ initpc = "probe2"
  /\ havedisk2' = Probe(first)
  /\ IF havedisk2' = 0
     THEN /\ panicked' = "ide disk 2(swap disk) not present"
          /\ UNCHANGED initpc
     ELSE /\ initpc' = "restore"
          /\ UNCHANGED panicked
  /\ UNCHANGED <<idelock, idequeue, havedisk1, buf, pc, tb, wasdirty, ipc, hw,
                 irq, disk, hist, lastw>>
  /\ polls' = IF lastw.on THEN [polls EXCEPT ![2] = first] ELSE polls
  /\ ~BitSet(hw2.status, ATA_SR_BSY)
  /\ hw2' = [hw2 EXCEPT !.sdh = 224 + 16 * (SWAP_DEVNO % 2)]
  /\ UNCHANGED <<cache, order, sw, swapdisk>>

\* "Switch back to disk 0."
IdeinitRestore ==
  /\ Running
  /\ initpc = "restore"
  /\ hw' = [hw EXCEPT !.sdh = 224]
  /\ initpc' = "done"
  /\ UNCHANGED <<idelock, idequeue, havedisk1, havedisk2, buf, pc, tb, wasdirty,
                 ipc, irq, disk, panicked, hist, lastw>>
  /\ UNCHANGED <<cache, polls, order, swapvars>>

\* ------------------------------------------------- read_swap, write_swap
\* The starting sectors a caller may pass: the span on the medium, and the
\* one behind it.
SwapSecnos == {0, NSECS}
\* What the caller's memory holds, sector by sector: the same value throughout.
SwapMems == {[i \in 0..(NSECS - 1) |-> d] : d \in Data}

\* The caller enters read_swap (op "read") or write_swap (op "write"); the
\* destination of a read holds zeroes.
SwapCall(t, op, secno, src) ==
  /\ Running
  /\ pc[t] = "idle"
  /\ initpc \in {"none", "done"}
  /\ op = "read" => src = [i \in 0..(NSECS - 1) |-> 0]
  /\ sw' = [sw EXCEPT ![t] = [op |-> op, secno |-> secno, k |-> 0, mem |-> src,
                               ret |-> 0, moved |-> <<>>]]
  /\ pc' = [pc EXCEPT ![t] = "sw_acquire"]
  /\ UNCHANGED <<idelock, idequeue, havedisk1, havedisk2, buf, tb, wasdirty, ipc,
                 initpc, hw, irq, disk, panicked, hist, lastw, cache, polls, order,
                 hw2, swapdisk>>

\* Mutant: the swap path runs without taking idelock.
SwapAcquireNoLock(t) ==
  /\ Running
  /\ pc[t] = "sw_acquire"
  /\ pc' = [pc EXCEPT ![t] = "sw_start"]
  /\ UNCHANGED <<idelock, idequeue, havedisk1, havedisk2, buf, tb, wasdirty, ipc,
                 initpc, hw, irq, disk, panicked, hist, lastw, cache, polls, order,
                 swapvars>>

SwapAcquire(t) ==
  /\ Running
  /\ pc[t] = "sw_acquire"
  /\ idelock = 0
  /\ idelock' = t
  /\ pc' = [pc EXCEPT ![t] = "sw_start"]
  /\ UNCHANGED <<idequeue, havedisk1, havedisk2, buf, tb, wasdirty, ipc, initpc,
                 hw, irq, disk, panicked, hist, lastw, cache, polls, order,
                 swapvars>>

\* The task file and command of a swap transfer of NSECS sectors from secno.
SwapRegs(secno, cmd) ==
  [status |-> ATA_SR_BSY, cmd |-> cmd, seccnt |-> NSECS,
   sector |-> secno % 256,
   cyl_lo |-> (secno \div 256) % 256,
   cyl_hi |-> (secno \div 65536) % 256,
   sdh |-> 224 + 16 * (SWAP_DEVNO % 2) + ((secno \div 16777216) % 16),
   data |-> 0, pos |-> 0, full |-> FALSE]

\* idewait(IO_BASE1, 0), then the registers and the command.
SwapStart(t) ==
  /\ Running
  /\ pc[t] = "sw_start"
  /\ ~BitSet(hw2.status, ATA_SR_BSY)
  /\ idewait(hw2.status, FALSE) = 0
  /\ hw2' = SwapRegs(sw[t].secno,
                     IF sw[t].op = "read" THEN ATA_CMD_READ ELSE ATA_CMD_WRITE)
  /\ pc' = [pc EXCEPT ![t] = "sw_xfer"]
  /\ UNCHANGED <<idelock, idequeue, havedisk1, havedisk2, buf, tb, wasdirty, ipc,
                 initpc, hw, irq, disk, panicked, hist, lastw, cache, polls, order,
                 sw, swapdisk>>

\* Mutant: the wait before a sector does not look at the fault bits.
SwapWaitUnchecked(st) == idewait(st, FALSE)

\* The error-checked wait of the sector loop.
SwapWait(st) == idewait(st, TRUE)

\* One pass of the sector loop: the wait, then either the abort (release and
\* return the fault) or the transfer of one sector through the data port.
SwapSector(t) ==
  /\ Running
  /\ pc[t] = "sw_xfer"
  /\ sw[t].k < NSECS
  /\ ~BitSet(hw2.status, ATA_SR_BSY)
  /\ LET k == sw[t].k IN
       IF SwapWait(hw2.status) # 0 THEN
         /\ sw' = [sw EXCEPT ![t].ret = SwapWait(hw2.status)]
         /\ idelock' = 0
         /\ pc' = [pc EXCEPT ![t] = "sw_done"]
         /\ UNCHANGED hw2
       ELSE
         /\ sw' = [sw EXCEPT ![t].k = k + 1,
                             ![t].moved = Append(@, k),
                             ![t].mem = IF sw[t].op = "read"
                                        THEN [@ EXCEPT ![k] = hw2.data] ELSE @]
         /\ hw2' = IF sw[t].op = "read"
                   THEN [hw2 EXCEPT !.pos = @ + 1,
                                    !.status = IF hw2.pos + 1 < hw2.seccnt
                                               THEN ATA_SR_BSY
                                               ELSE ATA_SR_DRDY + ATA_SR_DSC]
                   ELSE [hw2 EXCEPT !.data = sw[t].mem[k], !.full = TRUE,
                                    !.status = ATA_SR_BSY]
         /\ UNCHANGED <<idelock, pc>>
  /\ UNCHANGED <<idequeue, havedisk1, havedisk2, buf, tb, wasdirty, ipc, initpc,
                 hw, irq, disk, panicked, hist, lastw, cache, polls, order,
                 swapdisk>>

\* Mutant: the swap path wakes the caller of the queue head as it leaves.
SwapReleaseAndWake(t) ==
  /\ Running
  /\ pc[t] = "sw_xfer"
  /\ sw[t].k = NSECS
  /\ idelock' = 0
  /\ pc' = [wakeup(idequeue) EXCEPT ![t] = "sw_done"]
  /\ UNCHANGED <<idequeue, havedisk1, havedisk2, buf, tb, wasdirty, ipc, initpc,
                 hw, irq, disk, panicked, hist, lastw, cache, polls, order,
                 swapvars>>

\* The loop has moved all the sectors: release and return 0.
SwapRelease(t) ==
  /\ Running
  /\ pc[t] = "sw_xfer"
  /\ sw[t].k = NSECS
  /\ idelock' = 0
  /\ pc' = [pc EXCEPT ![t] = "sw_done"]
  /\ UNCHANGED <<idequeue, havedisk1, havedisk2, buf, tb, wasdirty, ipc, initpc,
                 hw, irq, disk, panicked, hist, lastw, cache, polls, order,
                 swapvars>>

\* The swap drive ends what keeps it busy: it fetches the next sector of a read
\* into its buffer, gets ready for the first sector of a write, or puts the
\* sector in its buffer on the medium, unless it faults (a sector off the
\* medium always faults); it clears BSY. Its interrupt line is not ideintr's.
Hw2Step(st) ==
  /\ Running
  /\ BitSet(hw2.status, ATA_SR_BSY)
  /\ LET lba == HwLba(hw2) + hw2.pos
         put == hw2.cmd = ATA_CMD_WRITE /\ hw2.full /\ ~Faulty(st)
     IN /\ lba \notin SwapLbas => Faulty(st)
        /\ hw2' = [hw2 EXCEPT !.status = st,
                              !.full = FALSE,
                              !.pos = IF put THEN @ + 1 ELSE @,
                              !.data = IF hw2.cmd = ATA_CMD_READ /\ ~Faulty(st)
                                       THEN swapdisk[lba] ELSE @]
        /\ swapdisk' = IF put THEN [swapdisk EXCEPT ![lba] = hw2.data] ELSE swapdisk
  /\ UNCHANGED <<idelock, idequeue, havedisk1, havedisk2, buf, pc, tb, wasdirty,
                 ipc, initpc, hw, irq, disk, panicked, hist, lastw, cache, polls,
                 order, sw>>

\* ----------------------------------------------------------------- Next
Next ==
  \/ \E t \in Threads, b \in Bufs, r \in Requests : Call(t, b, r)
  \/ \E t \in Threads : IderwCheck(t)
  \/ \E t \in Threads : IderwAcquire(t)
  \/ \E t \in Threads : IderwEnqueue(t)
  \/ \E t \in Threads : IderwLoop(t)
  \/ \E t \in Threads : IderwWake(t)
  \/ \E t \in Threads : Return(t)
  \/ \E t \in Threads : SpuriousWakeup(t)
  \/ \E st \in EndStatus : HwComplete(st)
  \/ IntrEnter
  \/ IntrSpurious
  \/ IntrService
  \/ IdeinitStart
  \/ \E first \in PollInputs : IdeinitProbe1(first)
  \/ \E first \in PollInputs : IdeinitProbe2(first)
  \/ IdeinitRestore

Spec == Init /\ [][Next]_vars

\* One thread alone uses the driver (the others are never started), and the
\* writes ideintr completes and the inputs of ideinit's probes are recorded.
RTInit == Boot({1}, TRUE)

RTSpec == RTInit /\ [][Next]_vars

\* ------------------------------------------------------------- liveness
\* The state once ideinit has completed with both drives present, the disks
\* blank, the threads of `started` ready and the buffers `bufs` in the cache.
Booted(started, bufs) ==
  /\ idelock = 0
  /\ idequeue = 0
  /\ havedisk1 = 1
  /\ havedisk2 = 1
  /\ buf = [b \in Bufs |-> [dev |-> 0, blockno |-> 0, flags |-> {}, data |-> 0, qnext |-> 0]]
  /\ pc = [t \in Threads |-> IF t \in started THEN "idle" ELSE "off"]
  /\ tb = [t \in Threads |-> 0]
  /\ wasdirty = [t \in Threads |-> FALSE]
  /\ ipc = "idle"
  /\ initpc = "done"
  /\ hw = HwIdle
  /\ irq = FALSE
  /\ disk = [d \in Drives |-> [l \in Lbas |-> 0]]
  /\ panicked = ""
  /\ hist = [b \in Bufs |-> <<>>]
  /\ lastw = NoWrite(FALSE)
  /\ cache = bufs
  /\ polls = NoPolls
  /\ order = <<>>
  /\ sw = [t \in Threads |-> NoSwap]
  /\ hw2 = Hw2Idle
  /\ swapdisk = [l \in SwapLbas |-> 0]

\* The scenario of concurrent submissions: after ideinit, every thread in use
\* calls iderw once with a request that keeps the caller's contract.
LiveInit == Booted(1..NTHREADS, 1..NBUF)

ValidRequests == {r \in Requests : r.flags \in GoodFlags /\ r.blockno < FSSIZE}

Submit(t) == \E b \in Bufs, r \in ValidRequests : Call(t, b, r)
Complete == \E st \in EndStatus : HwComplete(st)

LiveNext ==
  \/ \E t \in Threads : Submit(t)
  \/ \E t \in Threads : IderwCheck(t)
  \/ \E t \in Threads : IderwAcquire(t)
  \/ \E t \in Threads : IderwEnqueue(t)
  \/ \E t \in Threads : IderwLoop(t)
  \/ \E t \in Threads : IderwWake(t)
  \/ \E t \in Threads : SpuriousWakeup(t)
  \/ Complete
  \/ IntrEnter
  \/ IntrSpurious
  \/ IntrService

\* Every thread that can take a step of iderw eventually takes it, a thread or
\* the handler that finds idelock free again and again eventually gets it, the
\* drive ends every command, and the handler runs to its end. Nothing is
\* assumed of spurious wakeups.
LiveFairness ==
  /\ \A t \in Threads :
       /\ WF_vars(Submit(t))
       /\ WF_vars(IderwCheck(t))
       /\ SF_vars(IderwAcquire(t))
       /\ WF_vars(IderwEnqueue(t))
       /\ WF_vars(IderwLoop(t))
       /\ SF_vars(IderwWake(t))
  /\ WF_vars(Complete)
  /\ SF_vars(IntrEnter)
  /\ WF_vars(IntrSpurious)
  /\ WF_vars(IntrService)

LiveSpec == LiveInit /\ [][LiveNext]_vars /\ LiveFairness

\* The deep-queue scenario: after ideinit, every thread that exists uses the
\* driver and the cache has a buffer for each.
DeepInit == Booted(Threads, Bufs)

\* Its requests: the reads, one per device.
DeepRequests == {r \in ValidRequests : r.flags = {"B_BUSY"}}

DeepSubmit(t) == \E b \in Bufs, r \in DeepRequests : Call(t, b, r)

DeepNext ==
  \/ \E t \in Threads : DeepSubmit(t)
  \/ \E t \in Threads : IderwCheck(t)
  \/ \E t \in Threads : IderwAcquire(t)
  \/ \E t \in Threads : IderwEnqueue(t)
  \/ \E t \in Threads : IderwLoop(t)
  \/ \E t \in Threads : IderwWake(t)
  \/ \E t \in Threads : Return(t)
  \/ Complete
  \/ IntrEnter
  \/ IntrSpurious
  \/ IntrService

DeepSpec == DeepInit /\ [][DeepNext]_vars

\* The swap scenario: after ideinit, the threads in use call iderw (reads) any
\* number of times and read_swap or write_swap once each, in any order; a
\* thread at "sw_done" has returned from its swap call with sw[t].ret.
SwapInit == Booted(1..NTHREADS, 1..NBUF)

SwapNext ==
  \/ \E t \in Threads : DeepSubmit(t)
  \/ \E t \in Threads : IderwCheck(t)
  \/ \E t \in Threads : IderwAcquire(t)
  \/ \E t \in Threads : IderwEnqueue(t)
  \/ \E t \in Threads : IderwLoop(t)
  \/ \E t \in Threads : IderwWake(t)
  \/ \E t \in Threads : SpuriousWakeup(t)
  \/ \E t \in Threads : Return(t)
  \/ Complete
  \/ IntrEnter
  \/ IntrSpurious
  \/ IntrService
  \/ \E t \in Threads, op \in {"read", "write"}, secno \in SwapSecnos, src \in SwapMems :
        SwapCall(t, op, secno, src)
  \/ \E t \in Threads : SwapAcquire(t)
  \/ \E t \in Threads : SwapStart(t)
  \/ \E t \in Threads : SwapSector(t)
  \/ \E t \in Threads : SwapRelease(t)
  \/ \E st \in EndStatus : Hw2Step(st)

SwapSpec == SwapInit /\ [][SwapNext]_vars

TypeOK ==
  /\ idelock \in 0..INTR
  /\ idequeue \in 0..NDEEP
  /\ havedisk1 \in {0, 1}
  /\ havedisk2 \in {0, 1}
  /\ \A b \in Bufs : buf[b].qnext \in 0..NDEEP /\ buf[b].flags \subseteq Flags

\* ------------------------------------------------------ claims: vocabulary
Last(s) == s[Len(s)]
Ends(b, ev) == hist[b] # <<>> /\ Last(hist[b]) = ev
\* Ends in the state a step leads to.
EndsNext(b, ev) == hist'[b] # <<>> /\ Last(hist'[b]) = ev
InQueue(b) == \E i \in 1..Len(Queue) : Queue[i] = b
\* The requests started on the controller whose completion ideintr has not
\* processed yet.
ActiveBufs == {b \in Bufs : Ends(b, "ACTIVE")}
Lifecycle == <<"SUBMITTED", "QUEUED", "ACTIVE", "COMPLETED">>

\* ---------------------------------------------------------------------- C1
\* An iderw step that appends its request behind a non-empty queue leaves the
\* controller alone and leaves the request merely queued.
AppendBehindNoStart ==
  \A t \in Threads :
    (pc[t] = "enqueue" /\ pc'[t] # "enqueue" /\ idequeue # 0) =>
      /\ hw' = hw
      /\ Last(hist'[tb[t]]) = "QUEUED"
      /\ idequeue' = idequeue

\* C1: at most one filesystem hardware operation is in flight: never are two
\* requests started with their completions unprocessed by ideintr, and an iderw
\* call that appends behind a non-empty queue does not call idestart.
C1_AtMostOneInFlight ==
  /\ [](Cardinality(ActiveBufs) <= 1)
  /\ [][AppendBehindNoStart]_vars

\* A request sits queued, not started, behind the started head, its caller asleep.
C1_Witness ==
  /\ Len(Queue) = 2
  /\ Ends(Queue[1], "ACTIVE")
  /\ Ends(Queue[2], "QUEUED")
  /\ \E t \in Threads : tb[t] = Queue[2] /\ pc[t] = "sleeping"

\* ---------------------------------------------------------------------- C2
AllReturned ==
  /\ \A t \in 1..NTHREADS : pc[t] = "done" /\ Settled(tb[t])
  /\ idequeue = 0

\* C2: when the threads call iderw concurrently, each with a request of its
\* own, then under every fair interleaving of the submissions with each other
\* and with the drive and ideintr, all calls eventually return with their
\* request settled, and idequeue is empty from then on.
C2_BothEventuallyReturn == <>[]AllReturned

\* Both calls have returned, the request of one having waited in the queue
\* behind the request of the other.
C2_Witness ==
  /\ AllReturned
  /\ \E t, u \in 1..NTHREADS : t # u /\ buf[tb[t]].qnext = tb[u]

\* ---------------------------------------------------------------------- C3
\* A thread in the wait loop whose request is not settled does not leave iderw.
BackToSleep ==
  \A t \in Threads :
    (pc[t] \in {"loop", "runnable", "sleeping"} /\ ~Settled(tb[t])) =>
      (Settled(tb[t])' \/ pc'[t] \in {"loop", "runnable", "sleeping"})

\* C3: iderw returns only once its request is settled: whenever a call has
\* returned, the request has VALID set and DIRTY clear, and a caller woken
\* while that does not hold goes back to sleep.
C3_ReturnOnlySettled ==
  /\ [](\A t \in Threads : pc[t] = "done" => Settled(tb[t]))
  /\ [][BackToSleep]_vars

\* A read and a write have both returned.
C3_Witness ==
  \E t, u \in Threads :
    /\ pc[t] = "done" /\ wasdirty[t] /\ Settled(tb[t])
    /\ pc[u] = "done" /\ ~wasdirty[u] /\ Settled(tb[u])

\* ---------------------------------------------------------------------- C4
\* The medium's content of the block a request names.
DiskBlock(b) == disk[buf[b].dev % 2][buf[b].blockno * SectorPerBlock]

\* C4: for every iderw call that has returned, a read's buffer holds the disk's
\* content of the block, and the disk holds the buffer's data of a write.
C4_ReturnSynced ==
  \A t \in Threads :
    pc[t] = "done" =>
      /\ ~wasdirty[t] => buf[tb[t]].data = DiskBlock(tb[t])
      /\ wasdirty[t] => DiskBlock(tb[t]) = buf[tb[t]].data

\* ---------------------------------------------------------------------- C5
\* C5: an iderw write of data D for block n followed by an iderw read of the
\* same block, no other write in between, leaves the read request's data equal
\* to D: a returned read of the block of the last completed write holds that
\* write's data.
C5_RoundTrip ==
  \A t \in Threads :
    (/\ pc[t] = "done"
     /\ ~wasdirty[t]
     /\ lastw.data # -1
     /\ lastw.dev = buf[tb[t]].dev
     /\ lastw.blockno = buf[tb[t]].blockno) =>
      buf[tb[t]].data = lastw.data

\* ---------------------------------------------------------------------- C6
IsPrefix(s, full) == Len(s) <= Len(full) /\ \A i \in 1..Len(s) : s[i] = full[i]

\* A completed request stays completed and settled until its caller takes it back.
CompletedIsTerminal ==
  \A b \in Bufs :
    Ends(b, "COMPLETED") =>
      \/ hist'[b] = <<>>
      \/ hist'[b] = hist[b] /\ Settled(b)'

\* C6: every request passes through SUBMITTED, QUEUED, ACTIVE, COMPLETED in that
\* order, each once: its log is always a prefix of that sequence, it is ACTIVE
\* only as the queue head, it is settled exactly once COMPLETED, a returned call
\* has the whole sequence, and a COMPLETED request never goes back.
C6_LifecycleInOrder ==
  /\ [](\A b \in Bufs :
          /\ IsPrefix(hist[b], Lifecycle)
          /\ Ends(b, "ACTIVE") => idequeue = b
          /\ Ends(b, "QUEUED") => InQueue(b) /\ (idelock = 0 => idequeue # b)
          /\ Len(hist[b]) >= 2 => (Settled(b) <=> Ends(b, "COMPLETED"))
          /\ Ends(b, "COMPLETED") => ~InQueue(b))
  /\ [](\A t \in Threads : pc[t] = "done" => hist[tb[t]] = Lifecycle)
  /\ [][CompletedIsTerminal]_vars

\* A request that waited behind another one has completed and its call returned.
C6_Witness ==
  \E t \in Threads :
    /\ pc[t] = "done"
    /\ hist[tb[t]] = Lifecycle
    /\ \E b \in Bufs : buf[b].qnext = tb[t]

\* ---------------------------------------------------------------------- C7
\* C7: a request with a block number of FSSIZE or above halts the system when it
\* is started, by iderw or by ideintr, with no command programmed for it; no
\* request out of range is ever started; a request in range does not halt.
C7_OutOfRangeHalts ==
  /\ \A b \in Bufs : Len(hist[b]) >= 3 => buf[b].blockno < FSSIZE
  /\ panicked = "incorrect blockno" =>
       /\ idequeue # 0
       /\ buf[idequeue].blockno >= FSSIZE
       /\ Ends(idequeue, "QUEUED")
       /\ hw.cmd = 0
       /\ ~BitSet(hw.status, ATA_SR_BSY)
  /\ (panicked = "" /\ idelock = 0 /\ idequeue # 0) => buf[idequeue].blockno < FSSIZE

\* ideintr completed a request in range (block FSSIZE - 1) and halted on the
\* new head, whose block number is FSSIZE.
C7_Witness ==
  /\ panicked = "incorrect blockno"
  /\ ipc = "check"
  /\ idequeue # 0
  /\ buf[idequeue].blockno = FSSIZE
  /\ \E b \in Bufs : Ends(b, "COMPLETED") /\ buf[b].blockno = FSSIZE - 1

\* ---------------------------------------------------------------------- C8
\* The drive whose presence havedisk1 records: the one selected by the value
\* ideinit's first probe writes to the drive/head register.
ProbedDrive1 == HwDrive([sdh |-> 224 + 16 * (FS_DEVNO % 2)])
\* The drive idestart selects for a request.
TargetDrive(b) == HwDrive(StartRegs(buf[b]))

\* C8: iderw halts when the request's device id is nonzero and that device was
\* not detected, the flag consulted being the one of the device the request
\* targets: a call gets past the checks with a nonzero device only when
\* havedisk1 is set and is the flag of the drive the request is started on, and
\* the halt happens only on a request for a nonzero device with the flag clear.
C8_AbsentDeviceHalts ==
  /\ \A t \in Threads :
       pc[t] \in {"acquire", "enqueue", "loop", "sleeping", "runnable", "done"} =>
         \/ buf[tb[t]].dev = 0
         \/ havedisk1 = 1 /\ TargetDrive(tb[t]) = ProbedDrive1
  /\ panicked = "iderw: ide disk 1 not present" =>
       \E t \in Threads :
         /\ pc[t] = "check"
         /\ buf[tb[t]].dev # 0
         /\ havedisk1 = 0
         /\ ~InQueue(tb[t])
         /\ idelock # t

\* ---------------------------------------------------------------------- C9
\* The claim's two refusals, stated on the flags.
Refused(fl) == "B_BUSY" \notin fl \/ ("B_VALID" \in fl /\ "B_DIRTY" \notin fl)
ContractPanics == {"iderw: buf not busy", "iderw: nothing to do"}

\* A refused request never gets past the checks and is left as it was; the halt
\* changes neither the queue, nor any request, nor the lock.
RefusedHalts ==
  /\ \A t \in Threads :
       (pc[t] = "check" /\ Refused(buf[tb[t]].flags)) =>
         /\ pc'[t] = "check"
         /\ buf'[tb[t]] = buf[tb[t]]
         /\ idelock' # t
  /\ (panicked = "" /\ panicked' \in ContractPanics) =>
       /\ idequeue' = idequeue
       /\ buf' = buf
       /\ idelock' = idelock
       /\ \E t \in Threads : pc[t] = "check" /\ Refused(buf[tb[t]].flags) /\ idelock # t
  /\ \A t \in Threads :
       (pc[t] = "check" /\ ~Refused(buf[tb[t]].flags) /\ pc'[t] # "check") =>
         pc'[t] = "acquire" /\ panicked' = ""

\* C9: iderw halts before it acquires idelock, with idequeue and the request's
\* link and flags unchanged, when the request lacks BUSY or is VALID without
\* DIRTY; a request with BUSY and either DIRTY or not VALID passes both checks.
C9_ContractViolationHalts ==
  /\ [][RefusedHalts]_vars
  /\ [](\A t \in Threads :
          pc[t] \in {"acquire", "enqueue", "loop", "sleeping", "runnable", "done"} =>
            Len(hist[tb[t]]) >= 1 /\ (Len(hist[tb[t]]) = 1 => ~Refused(buf[tb[t]].flags)))
  /\ [](panicked \in ContractPanics =>
          \E t \in Threads : pc[t] = "check" /\ Refused(buf[tb[t]].flags)
                             /\ idelock # t /\ ~InQueue(tb[t]))

\* iderw halted on a request that is VALID and not DIRTY while another request
\* was queued and in flight.
C9_Witness ==
  /\ panicked = "iderw: nothing to do"
  /\ idequeue # 0
  /\ \E t \in Threads : pc[t] = "check" /\ buf[tb[t]].flags = {"B_BUSY", "B_VALID"}

\* --------------------------------------------------------------------- C10
\* The step by which ideintr leaves its test of an empty queue.
SpuriousIsNoOp ==
  (ipc = "check" /\ idequeue = 0 /\ ipc' # "check") =>
    /\ buf' = buf
    /\ idequeue' = 0
    /\ pc' = pc
    /\ hw' = hw
    /\ irq' = irq
    /\ disk' = disk
    /\ hist' = hist
    /\ panicked' = panicked
    /\ idelock' = 0
    /\ ipc' = "idle"

\* C10: an ideintr that finds idequeue empty changes no request, leaves the
\* queue empty, wakes nobody, starts nothing and returns with idelock released.
C10_SpuriousInterruptNoOp == [][SpuriousIsNoOp]_vars

\* ideintr holds idelock and finds the queue empty while a caller waits for the lock.
C10_Witness ==
  /\ ipc = "check"
  /\ idelock = INTR
  /\ idequeue = 0
  /\ \E t \in Threads : pc[t] = "acquire"

\* --------------------------------------------------------------------- C13
ProbePanics == {"ide disk 1 not present", "ide disk 2(swap disk) not present"}
\* No thread is inside the driver and neither channel has a command.
NoIO ==
  /\ \A t \in Threads : pc[t] \in {"idle", "off"}
  /\ idequeue = 0
  /\ hw.cmd = 0
  /\ hw2.cmd = 0

\* C13: ideinit halts when a drive shows no nonzero status within the NPOLL
\* polls of its probe; a failed first probe is followed by no second probe, a
\* failed probe by no restore of the drive select and no I/O, and nothing runs
\* after the halt; ideinit completes only with both presence flags set.
C13_ProbeFailureHalts ==
  /\ [](polls[1] >= NPOLL =>
          /\ panicked = "ide disk 1 not present"
          /\ initpc = "probe1"
          /\ havedisk1 = 0 /\ havedisk2 = 0
          /\ polls[2] = -1)
  /\ [](polls[2] >= NPOLL =>
          /\ panicked = "ide disk 2(swap disk) not present"
          /\ initpc = "probe2"
          /\ havedisk2 = 0)
  /\ [](panicked \in ProbePanics => NoIO /\ HwDrive(hw) = FS_DEVNO % 2)
  /\ [](initpc \in {"restore", "done"} =>
          /\ havedisk1 = 1 /\ havedisk2 = 1
          /\ (lastw.on => polls[1] \in 0..(NPOLL - 1) /\ polls[2] \in 0..(NPOLL - 1)))
  /\ [][panicked # "" => UNCHANGED vars]_vars

\* The first drive answered at the last poll of its probe, the second one never.
C13_Witness ==
  /\ panicked = "ide disk 2(swap disk) not present"
  /\ polls = <<NPOLL - 1, NPOLL>>

\* --------------------------------------------------------------------- C15
\* A queued request becomes settled only in a step of ideintr, which holds
\* idelock and leaves no caller parked on it.
SettledUnderLock ==
  \A b \in Bufs :
    (Len(hist[b]) >= 2 /\ ~Settled(b) /\ Settled(b)') =>
      /\ idelock = INTR
      /\ \A t \in Threads : tb[t] = b => pc'[t] # "sleeping"

\* C15: no wakeup is lost between iderw and ideintr: iderw tests the flags and
\* parks with idelock held, ideintr sets the flags and wakes with idelock held,
\* and no caller is ever parked on a request that is already settled.
C15_NoLostWakeup ==
  /\ [](\A t \in Threads : pc[t] = "sleeping" => ~Settled(tb[t]) /\ InQueue(tb[t]))
  /\ [](\A t \in Threads : pc[t] \in {"enqueue", "loop"} => idelock = t)
  /\ [](ipc = "check" => idelock = INTR)
  /\ [][SettledUnderLock]_vars

\* ideintr has settled the request of a parked caller, who is now runnable,
\* while the other caller is still parked on its own request.
C15_Witness ==
  \E t, u \in Threads :
    /\ pc[t] = "runnable" /\ Settled(tb[t])
    /\ pc[u] = "sleeping"

\* --------------------------------------------------------------------- C17
\* The step of ideintr that completes a read whose status shows a fault.
FaultedReadCompletion ==
  \A b \in Bufs :
    (/\ ipc = "check" /\ idequeue = b
     /\ hist'[b] # hist[b]
     /\ "B_DIRTY" \notin buf[b].flags
     /\ Faulty(hw.status)) =>
      /\ buf'[b].data = buf[b].data
      /\ buf'[b].flags = (buf[b].flags \cup {"B_VALID"}) \ {"B_DIRTY"}
      /\ idequeue' = buf[b].qnext
      /\ \A t \in Threads : (tb[t] = b /\ pc[t] = "sleeping") => pc'[t] = "runnable"
      /\ idequeue' # 0 => EndsNext(idequeue', "ACTIVE") \/ panicked' = "incorrect blockno"
      /\ idequeue' = 0 => panicked' = ""

\* C17: on the queued path a fault is not surfaced: ideintr completing a read
\* whose error-checked wait reports a fault pulls no data, yet pops the
\* request, sets VALID, clears DIRTY, wakes the waiter and starts the next
\* head, and iderw returns as on success.
C17_FaultNotSurfaced ==
  /\ [][FaultedReadCompletion]_vars
  /\ [](\A t \in Threads : pc[t] = "done" =>
          Settled(tb[t]) /\ hist[tb[t]] = Lifecycle /\ panicked \notin {"idestart"})

\* A read of the second drive has returned with data that is not on the disk.
C17_Witness ==
  \E t \in Threads :
    /\ pc[t] = "done" /\ ~wasdirty[t]
    /\ buf[tb[t]].dev = FS_DEVNO
    /\ buf[tb[t]].data # DiskBlock(tb[t])

\* --------------------------------------------------------------------- C18
\* ideintr starts the new head in the step in which it releases idelock.
NewHeadStarted ==
  (ipc = "check" /\ ipc' = "idle" /\ idequeue' # 0) =>
    EndsNext(idequeue', "ACTIVE") /\ hw'.cmd # 0

\* C18: whenever idelock is free, the head and only the head has an operation
\* outstanding: the queue is non-empty exactly when one started operation
\* awaits its ideintr, it is the head's, and nothing behind the head has been
\* started; ideintr starts the new head before it releases the lock.
C18_OnlyHeadOutstanding ==
  /\ [](idelock = 0 =>
          /\ idequeue # 0 <=> Cardinality(ActiveBufs) = 1
          /\ ActiveBufs \subseteq {idequeue}
          /\ idequeue # 0 => hw.cmd # 0
          /\ \A i \in 2..Len(Queue) : Ends(Queue[i], "QUEUED"))
  /\ [][NewHeadStarted]_vars

\* The lock is free, a request has completed and the one that waited behind it
\* is the started head.
C18_Witness ==
  /\ idelock = 0
  /\ idequeue # 0
  /\ Ends(idequeue, "ACTIVE")
  /\ \E b \in Bufs : Ends(b, "COMPLETED") /\ buf[b].qnext = idequeue

\* --------------------------------------------------------------------- C19
\* C19: a request's link is null whenever the request is not in the queue or
\* is the queue's tail: with idelock free, every request popped by ideintr and
\* the request at the tail have qnext = 0.
C19_LinkNullOutsideQueue ==
  idelock = 0 =>
    /\ \A b \in Bufs : Ends(b, "COMPLETED") => buf[b].qnext = 0
    /\ idequeue # 0 => buf[Last(Queue)].qnext = 0

\* --------------------------------------------------------------------- C20
\* The requests appended by iderw and not yet popped by ideintr.
Pending == {b \in Bufs : Ends(b, "QUEUED") \/ Ends(b, "ACTIVE")}

\* C20: each request being submitted by one iderw call at a time, the chain
\* from idequeue through qnext is finite, without cycle or duplicate, and holds
\* exactly the requests appended and not yet popped; every parked caller has
\* its request in the queue, every returned call's request is out of it.
C20_ChainWellFormed ==
  /\ Len(Queue) <= NDEEP
  /\ \A i, j \in 1..Len(Queue) : i # j => Queue[i] # Queue[j]
  /\ {Queue[i] : i \in 1..Len(Queue)} = Pending
  /\ \A t \in Threads : pc[t] = "sleeping" => InQueue(tb[t])
  /\ \A t \in Threads : pc[t] = "done" => ~InQueue(tb[t])

\* A returned call's request is out of the queue with its old link still
\* pointing at the request queued behind it, whose caller is parked.
C20_Witness ==
  \E t, u \in Threads :
    /\ pc[t] = "done" /\ buf[tb[t]].qnext = tb[u]
    /\ pc[u] = "sleeping" /\ idequeue = tb[u]

\* --------------------------------------------------------------------- C16
\* A request is started, and is completed, only as the oldest of the requests
\* appended and not yet completed.
OldestFirst ==
  \A b \in Bufs :
    /\ (hist'[b] # hist[b] /\ EndsNext(b, "ACTIVE")) => order' # <<>> /\ Head(order') = b
    /\ (hist'[b] # hist[b] /\ EndsNext(b, "COMPLETED")) => order # <<>> /\ Head(order) = b

\* C16: the queue is FIFO: the chain holds the pending requests in the order
\* in which iderw appended them, and requests are started and completed in
\* that order, whatever the interleaving of the submitters.
C16_Fifo ==
  /\ [](Queue = order)
  /\ [][OldestFirst]_vars

\* Every thread has a request in the queue, the head started and the two
\* behind it waiting, appended in an order that is not the buffers' order.
C16_Witness ==
  /\ Len(Queue) = NDEEP
  /\ Ends(Queue[1], "ACTIVE")
  /\ Ends(Queue[2], "QUEUED") /\ Ends(Queue[NDEEP], "QUEUED")
  /\ Queue[1] > Queue[2]

\* ------------------------------------------------- claims: the swap path
SwapPcs == {"sw_acquire", "sw_start", "sw_xfer", "sw_done"}
\* Thread t is between the acquire and the release of a swap call.
InSwap(t) == pc[t] \in {"sw_start", "sw_xfer"}
FirstSectors(n) == [i \in 1..n |-> i - 1]

\* --------------------------------------------------------------------- C11
\* The pass of the sector loop that finds a fault aborts: nothing moves,
\* idelock is released and the fault returned; a pass that finds none moves
\* exactly the next sector.
AbortOnFault ==
  \A t \in Threads :
    (pc[t] = "sw_xfer" /\ sw[t].k < NSECS /\ (pc'[t] # pc[t] \/ sw'[t] # sw[t])) =>
      IF Faulty(hw2.status)
      THEN /\ pc'[t] = "sw_done" /\ sw'[t].ret = -1 /\ idelock' = 0
           /\ sw'[t].mem = sw[t].mem /\ sw'[t].moved = sw[t].moved
           /\ hw2' = hw2 /\ swapdisk' = swapdisk
      ELSE /\ pc'[t] = "sw_xfer" /\ idelock' = t
           /\ sw'[t].moved = Append(sw[t].moved, sw[t].k)
           /\ sw[t].op = "read" => sw'[t].mem[sw[t].k] = swapdisk[sw[t].secno + sw[t].k]
           /\ sw[t].op = "write" => hw2'.data = sw[t].mem[sw[t].k] /\ hw2'.full

\* C11: read_swap and write_swap abort at the first error-checked wait that
\* reports a fault: no data moves for that sector or a later one, idelock is
\* released and the fault returned, the sectors before it stay transferred;
\* without a fault all NSECS sectors move and the call returns 0.
C11_SwapAbortsOnFault ==
  /\ [][AbortOnFault]_vars
  /\ [](\A t \in Threads : pc[t] \in {"sw_xfer", "sw_done"} =>
          /\ sw[t].moved = FirstSectors(sw[t].k)
          /\ sw[t].op = "write" =>
                \A i \in 0..(sw[t].k - 2) : idelock = t => swapdisk[sw[t].secno + i] = sw[t].mem[i])
  /\ [](\A t \in Threads : pc[t] = "sw_done" =>
          /\ idelock # t
          /\ sw[t].ret \in {0, -1}
          /\ sw[t].ret = 0 <=> sw[t].k = NSECS)

\* A swap read found a fault at the wait before sector 3 and returned it, the
\* sectors 0 to 2 in the caller's memory.
C11_Witness ==
  \E t \in Threads :
    /\ pc[t] = "sw_done" /\ sw[t].op = "read" /\ sw[t].ret = -1
    /\ sw[t].moved = <<0, 1, 2>>
    /\ \A i \in 0..2 : sw[t].mem[i] = MaxData

\* --------------------------------------------------------------------- C12
\* While a swap transfer is in progress, a step appends no request, starts,
\* pops and completes none (a caller may hand a buffer to iderw or take one
\* back, which needs no lock), and moves no other swap call forward.
SerializedStep ==
  \A t \in Threads :
    InSwap(t) =>
      /\ idequeue' = idequeue /\ order' = order
      /\ \A b \in Bufs : hist'[b] # hist[b] => hist'[b] \in {<<>>, <<"SUBMITTED">>}
      /\ \A b \in Bufs : InQueue(b) => buf'[b] = buf[b]
      /\ hw'.cmd = hw.cmd /\ HwLba(hw') = HwLba(hw) /\ HwDrive(hw') = HwDrive(hw)
      /\ ipc' = ipc
      /\ \A u \in Threads \ {t} :
           /\ sw'[u].moved = sw[u].moved
           /\ pc'[u] \in {"sw_start", "sw_xfer"} <=> pc[u] \in {"sw_start", "sw_xfer"}
           /\ pc[u] \in {"acquire", "sw_acquire", "runnable"} => pc'[u] = pc[u]

\* C12: read_swap and write_swap hold idelock from before their first
\* register access until after their last sector transfer or their abort, so
\* a swap transfer is serialized against the queued traffic and against other
\* swap calls.
C12_SwapSerialized ==
  /\ [](\A t \in Threads : InSwap(t) => idelock = t /\ ipc = "idle")
  /\ [](\A t, u \in Threads : (InSwap(t) /\ InSwap(u)) => t = u)
  /\ [](\A t \in Threads : (pc[t] = "sw_acquire") => sw[t].moved = <<>>)
  /\ [](hw2.cmd # 0 /\ idelock = 0 =>
          \A t \in Threads : pc[t] \in SwapPcs => pc[t] \in {"sw_acquire", "sw_done"})
  /\ [][SerializedStep]_vars

\* A swap transfer is under way while a request is in flight with its caller
\* parked and the drive's completion interrupt waits for the lock.
C12_Witness ==
  \E t, u \in Threads :
    /\ pc[t] = "sw_xfer" /\ sw[t].k = 4
    /\ pc[u] = "sleeping" /\ idequeue = tb[u]
    /\ irq /\ ipc = "idle"

\* --------------------------------------------------------------------- C14
\* A step of a swap call.
SwapStep(t) ==
  (pc[t] \in SwapPcs \/ pc'[t] \in SwapPcs) /\ (pc'[t] # pc[t] \/ sw'[t] # sw[t])

\* A step of a swap call leaves the queue, the requests and the sleepers alone.
SwapLeavesQueue ==
  \A t \in Threads :
    SwapStep(t) =>
      /\ idequeue' = idequeue
      /\ buf' = buf
      /\ hist' = hist /\ order' = order
      /\ \A u \in Threads \ {t} : pc'[u] = pc[u]
      /\ hw' = hw /\ irq' = irq /\ ipc' = ipc

\* C14: read_swap and write_swap never touch the request queue: each call,
\* successful or aborted, leaves idequeue, the queued requests' links, flags
\* and data and the set of sleeping iderw callers unchanged and wakes nobody.
C14_SwapLeavesQueue == [][SwapLeavesQueue]_vars

\* A swap write has returned 0 while a request is in flight, its caller parked.
C14_Witness ==
  \E t, u \in Threads :
    /\ pc[t] = "sw_done" /\ sw[t].op = "write" /\ sw[t].ret = 0
    /\ pc[u] = "sleeping" /\ idequeue = tb[u] /\ Ends(tb[u], "ACTIVE")

====
